---- MODULE Spec2Model ----
(***************************************************************************)
(* Layout and cable-routing engine of HARBORBAY_V1/generar_lisp_HARBORBAY. *)
(* main loads the rows of torres.csv one by one (cargar_datos_csv) and     *)
(* calls generar_lisp(cfg, torres), modelled as a sequential state machine:*)
(* opening of the script, tower X placement, level Y placement, per-tower drawing (switch/UPS     *)
(* stack, device icons), level guide lines, UTP router, fiber router,      *)
(* power routing, closing directives.                                      *)
(*                                                                         *)
(* Points are <<x, y>>.  The configuration values used are multiples of 4, *)
(* so every true division by 2 of the Python code is exact on integers.    *)
(* A Python dict is modelled by the sequence of its keys (or key/value     *)
(* pairs) in insertion order.  Switch model names and display names only   *)
(* reach label strings and are left out.  Layer/colour selection and princ *)
(* directives carry no coordinates and are left out of the output stream.  *)
(***************************************************************************)
EXTENDS Integers, Sequences, FiniteSets, TLC

VARIABLES cfg, torres, coords, alturas_niveles, out, pc, corrida, out1, filas, dic

vars == <<cfg, torres, coords, alturas_niveles, out, pc, corrida, out1, filas, dic>>

(***************************************************************************)
(* Bounds of the explored inputs.                                          *)
(***************************************************************************)
MaxTorres == 3
MaxTorresPila == 1
MaxTorresDos == 2
MaxTorresUTP == 1
MaxTorresNiv == 2
MaxFilas == 3
MaxTorresFibra == 2
MaxNivelNiv == 2
MaxNivel == 1
MaxQty == 2

(***************************************************************************)
(* Fixed tables of the program.                                            *)
(***************************************************************************)
device_draw_order == <<"apQty", "telQty", "tvQty", "datQty", "camQty">>

draw_order == <<"SW-UPS", "SW-CCTV", "SW-DATA", "SW-IPTV", "SW-TEL", "SW-WIFI", "SW-CORE", "SW-FIREWALL">>

\* Python's sorted() on the switch names: ascending string order.
orden_sorted == <<"SW-CCTV", "SW-CORE", "SW-DATA", "SW-FIREWALL", "SW-IPTV", "SW-TEL", "SW-UPS", "SW-WIFI">>

(***************************************************************************)
(* Generic helpers on sequences and sets.                                  *)
(***************************************************************************)
Rango(s) == {s[i] : i \in 1..Len(s)}

RECURSIVE Filtrar(_, _)
Filtrar(s, S) ==
    IF s = <<>> THEN <<>>
    ELSE IF Head(s) \in S THEN <<Head(s)>> \o Filtrar(Tail(s), S)
                          ELSE Filtrar(Tail(s), S)

RECURSIVE Invertir(_)
Invertir(s) == IF s = <<>> THEN <<>> ELSE Invertir(Tail(s)) \o <<Head(s)>>

RECURSIVE Aplanar(_)
Aplanar(ss) == IF ss = <<>> THEN <<>> ELSE Head(ss) \o Aplanar(Tail(ss))

RECURSIVE SumaSeq(_)
SumaSeq(s) == IF s = <<>> THEN 0 ELSE Head(s) + SumaSeq(Tail(s))

Max2(a, b) == IF a >= b THEN a ELSE b

MaxDe(S) == CHOOSE m \in S : \A n \in S : m >= n

MinDe(S) == CHOOSE m \in S : \A n \in S : m =< n

\* sorted(list(set(...))) over integers
RECURSIVE SortedInts(_)
SortedInts(S) == IF S = {} THEN <<>> ELSE <<MinDe(S)>> \o SortedInts(S \ {MinDe(S)})

Mitad(n) == n \div 2

SeqsSinRep(S, n) ==
    UNION {{s \in [1..k -> S] : \A i, j \in 1..k : i # j => s[i] # s[j]} : k \in 0..n}

(***************************************************************************)
(* Output directives.  ref names the loop iteration that emitted the       *)
(* directive (tower id, kind, level id); txt is <<number, suffix>>.        *)
(***************************************************************************)
Dir(op, src, rol, pts, txt, ref) ==
    [op |-> op, src |-> src, rol |-> rol, pts |-> pts, txt |-> txt, ref |-> ref]

\* lisp_dibujar_linea
Linea(src, rol, p1, p2, ref) == Dir("linea", src, rol, <<p1, p2>>, <<0, "">>, ref)

\* lisp_dibujar_polilinea (open)
Polilinea(src, rol, pts, ref) == Dir("polilinea", src, rol, pts, <<0, "">>, ref)

\* lisp_dibujar_texto
Texto(src, rol, p, n, s, ref) == Dir("texto", src, rol, <<p>>, <<n, s>>, ref)

\* lisp_dibujar_rectangulo: closed polyline through the four corners
Rectangulo(src, rol, p1, p2, ref) ==
    Dir("rect", src, rol,
        <<<<p1[1], p1[2]>>, <<p2[1], p1[2]>>, <<p2[1], p2[2]>>, <<p1[1], p2[2]>>>>,
        <<0, "">>, ref)

(***************************************************************************)
(* Configurations (config.json is an input of the program).  CfgBase has   *)
(* switch boxes wider than the UPS box; the others change one setting.     *)
(***************************************************************************)
CfgBase ==
    [X_INICIAL |-> 0, Y_INICIAL |-> 0,
     LONGITUD_PISO |-> 1000, SEPARACION_ENTRE_TORRES |-> 200,
     ESPACIO_ENTRE_NIVELES |-> 200,
     DISPOSITIVO_ESPACIADO_Y |-> 60, DISPOSITIVO_ESPACIADO_X |-> 100,
     DISPOSITIVO_Y_OFFSET |-> 40,
     SWITCH_ANCHO |-> 200, SWITCH_ALTO |-> 40, SWITCH_VERTICAL_SPACING |-> 60,
     UPS_ANCHO |-> 80, UPS_ALTO |-> 80, UPS_SWITCH_GAP |-> 32,
     TORRE_LABEL_OFFSET_Y |-> 100,
     DISPOSITIVOS |-> [k \in {"apQty", "telQty", "tvQty", "datQty", "camQty"} |->
                         CASE k = "apQty" -> "AP" [] k = "telQty" -> "TEL"
                           [] k = "tvQty" -> "TV" [] k = "datQty" -> "DAT"
                           [] OTHER -> "CAM"],
     MAPEO_SWITCH |-> [k \in {"apQty", "telQty", "tvQty", "datQty", "camQty"} |->
                         CASE k = "apQty" -> "SW-WIFI" [] k = "telQty" -> "SW-TEL"
                           [] k = "tvQty" -> "SW-IPTV" [] k = "datQty" -> "SW-DATA"
                           [] OTHER -> "SW-CCTV"],
     SWITCH_CONFIG |-> {"SW-CCTV", "SW-DATA", "SW-IPTV", "SW-TEL", "SW-WIFI",
                        "SW-CORE", "SW-FIREWALL"}]

\* switch boxes as wide as the UPS box
CfgAngosto == [CfgBase EXCEPT !.SWITCH_ANCHO = 80]

\* vertical spacing smaller than the box height
CfgApretado == [CfgBase EXCEPT !.SWITCH_VERTICAL_SPACING = 32]

\* a layer and colour entry for the UPS among the switch kinds of SWITCH_CONFIG
CfgConUPS == [CfgBase EXCEPT !.SWITCH_CONFIG = @ \cup {"SW-UPS"}]

\* no device configuration for the data drops, no switch mapping for cameras
CfgSinDato ==
    [CfgBase EXCEPT
       !.DISPOSITIVOS = [k \in {"apQty", "telQty", "tvQty", "camQty"} |-> CfgBase.DISPOSITIVOS[k]],
       !.MAPEO_SWITCH = [k \in {"apQty", "telQty", "tvQty", "datQty"} |-> CfgBase.MAPEO_SWITCH[k]]]

(***************************************************************************)
(* Input models: the list returned by cargar_datos_csv.  A tower holds the *)
(* keys of its 'switches' dict and its 'niveles' dict (level id and the    *)
(* five integer quantities) in insertion order; 'id' and 'x' are absent    *)
(* (-1) until generar_lisp writes them.                                    *)
(***************************************************************************)
QtyCero == [k \in Rango(device_draw_order) |-> 0]

Nivel(nid, qty) == [id |-> nid, qty |-> qty]

Torre(sw, nivs) == [switches |-> sw, niveles |-> nivs, id |-> -1, x |-> -1]

ListasDe(T, n) == UNION {[1..k -> T] : k \in 1..n}

\* the keys of a 'switches' dict filled from one CSV row: the kinds of S in the
\* order of switch_column_map, the UPS last (cargar_datos_csv, lines 99-107)
switch_column_order == <<"SW-FIREWALL", "SW-CORE", "SW-WIFI", "SW-TEL", "SW-IPTV", "SW-CCTV", "SW-DATA", "SW-UPS">>

SwitchesDeUnaFila(S) == {Filtrar(switch_column_order, X) : X \in SUBSET S}

\* Topology family: up to MaxTorres towers, each with any of UPS/WiFi/Data
\* declared in one row and a single level: the basement, or a first floor
\* with one access point (a tower list without any level 0 is included).
NivelesTopologia ==
    {<<Nivel(0, QtyCero)>>, <<Nivel(1, [QtyCero EXCEPT !["apQty"] = 1])>>}

TorresTopologia ==
    {Torre(sw, nv) : sw \in SwitchesDeUnaFila({"SW-UPS", "SW-WIFI", "SW-DATA"}),
                     nv \in NivelesTopologia}

\* Stack family: every insertion order of every subset of four switch kinds,
\* basement only.
TorresPila ==
    {Torre(sw, <<Nivel(0, QtyCero)>>) :
       sw \in SeqsSinRep({"SW-UPS", "SW-DATA", "SW-WIFI", "SW-CORE"}, 4)}

\* Device family: levels 0..MaxNivel in any insertion order, 0..MaxQty access
\* points and data drops on each, WiFi and Data switches present or not.
QtysUTP ==
    {[QtyCero EXCEPT !["apQty"] = a, !["datQty"] = d] : a \in 0..MaxQty, d \in 0..MaxQty}

NivelesUTP ==
    UNION {{[j \in 1..Len(ids) |-> Nivel(ids[j], q[j])] : q \in [1..Len(ids) -> QtysUTP]} :
             ids \in SeqsSinRep(0..MaxNivel, MaxNivel + 1) \ {<<>>}}

TorresUTP ==
    {Torre(sw, nv) : sw \in SwitchesDeUnaFila({"SW-WIFI", "SW-DATA"}), nv \in NivelesUTP}

\* Fiber family: towers with a basement and any of the UPS and four switch
\* kinds, declared in one row.
TorresFibra ==
    {Torre(sw, <<Nivel(0, QtyCero)>>) :
       sw \in SwitchesDeUnaFila({"SW-UPS", "SW-CCTV", "SW-DATA", "SW-TEL", "SW-WIFI"})}

\* Level family: towers with a WiFi and a Data switch and any set of the levels
\* 0..MaxNivelNiv in ascending order, each level empty, with an access point,
\* or with an access point and a data drop.
QtysNiv ==
    {QtyCero, [QtyCero EXCEPT !["apQty"] = 1],
     [QtyCero EXCEPT !["apQty"] = 1, !["datQty"] = 1]}

NivelesNiv ==
    UNION {{[j \in 1..Len(ids) |-> Nivel(ids[j], q[j])] : q \in [1..Len(ids) -> QtysNiv]} :
             ids \in {SortedInts(X) : X \in (SUBSET (0..MaxNivelNiv)) \ {{}}}}

TorresNiveles == {Torre(<<"SW-WIFI", "SW-DATA">>, nv) : nv \in NivelesNiv}

(***************************************************************************)
(* Loader (cargar_datos_csv, lines 47-117).  A row of csv.DictReader is a  *)
(* function from the columns of the header to field texts; a text is the   *)
(* sequence of its characters, and None (the value DictReader gives to a   *)
(* field missing at the end of a short row) is a value apart.              *)
(***************************************************************************)
None == <<"None">>

Digitos == <<"0", "1", "2", "3", "4", "5", "6", "7", "8", "9">>

ValorDigito(c) == (CHOOSE j \in 1..Len(Digitos) : Digitos[j] = c) - 1

RECURSIVE Recortar(_)
Recortar(s) ==
    IF s = <<>> THEN s
    ELSE IF Head(s) = " " THEN Recortar(Tail(s))
    ELSE IF s[Len(s)] = " " THEN Recortar(SubSeq(s, 1, Len(s) - 1))
    ELSE s

RECURSIVE ValorDecimal(_)
ValorDecimal(s) ==
    IF s = <<>> THEN 0
    ELSE ValorDecimal(SubSeq(s, 1, Len(s) - 1)) * 10 + ValorDigito(s[Len(s)])

\* Python int(v) of a field: blanks stripped, an optional sign, decimal digits
int(v) ==
    IF v = None THEN [exc |-> "TypeError", val |-> 0]
    ELSE LET s == Recortar(v)
             con_signo == s # <<>> /\ Head(s) \in {"-", "+"}
             cuerpo == IF con_signo THEN Tail(s) ELSE s
         IN IF cuerpo = <<>> \/ \E j \in 1..Len(cuerpo) : cuerpo[j] \notin Rango(Digitos)
            THEN [exc |-> "ValueError", val |-> 0]
            ELSE [exc |-> "", val |-> IF con_signo /\ Head(s) = "-"
                                      THEN 0 - ValorDecimal(cuerpo)
                                      ELSE ValorDecimal(cuerpo)]

\* row.get(col)
Get(row, col) == IF col \in DOMAIN row THEN row[col] ELSE None

\* lines 90-96: int(row.get(col) or 0), 0 on ValueError and TypeError
Cantidad(row, col) ==
    LET v == Get(row, col)
    IN IF v = None \/ v = <<>> THEN 0
       ELSE IF int(v).exc # "" THEN 0 ELSE int(v).val

\* lines 100 and 106: (row.get(csv_col) or '0') != '0'
Marcado(row, csv_col) ==
    LET v == Get(row, csv_col)
    IN ~(v = None \/ v = <<>> \/ v = <<"0">>)

\* the CSV column of each key of the 'switches' dict (switch_column_map, line 106)
ColumnaDe(sw) ==
    CASE sw = "SW-FIREWALL" -> "switch_FIREWALL"
      [] sw = "SW-CORE" -> "switch_CORE"
      [] sw = "SW-WIFI" -> "switch_wifi"
      [] sw = "SW-TEL" -> "switch_tel"
      [] sw = "SW-IPTV" -> "switch_iptv"
      [] sw = "SW-CCTV" -> "switch_cctv"
      [] sw = "SW-DATA" -> "switch_data"
      [] sw = "SW-UPS" -> "switch_UPS"

\* the default entry of the defaultdict torres (lines 53-57)
TorreNueva == [nombre |-> <<>>, niveles |-> <<>>, switches |-> <<>>]

\* torres[torre_id]: the entry is created by the read when it is missing
ConTorre(d, torre_id) ==
    IF torre_id \in DOMAIN d THEN d
    ELSE [k \in DOMAIN d \cup {torre_id} |-> IF k = torre_id THEN TorreNueva ELSE d[k]]

\* lines 85-96: the level entry of the row, created or overwritten in place
ConNivel(niveles, nivel_id, row) ==
    LET nuevo == Nivel(nivel_id, [k \in Rango(device_draw_order) |-> Cantidad(row, k)])
    IN IF \E j \in 1..Len(niveles) : niveles[j].id = nivel_id
       THEN [j \in 1..Len(niveles) |-> IF niveles[j].id = nivel_id THEN nuevo ELSE niveles[j]]
       ELSE Append(niveles, nuevo)

\* lines 99-107: the switch keys the row adds, a key already there keeping its place
ConSwitches(switches, row) ==
    switches \o Filtrar(switch_column_order,
                        {sw \in Rango(switch_column_order) :
                           Marcado(row, ColumnaDe(sw)) /\ sw \notin Rango(switches)})

\* lines 76-112: the body of the loop for one row; exc is the exception that
\* ended it ("" when none)
ProcesarFila(d, row) ==
    IF "TORRE" \notin DOMAIN row THEN [dic |-> d, exc |-> "KeyError"]
    ELSE IF int(row["TORRE"]).exc # "" THEN [dic |-> d, exc |-> int(row["TORRE"]).exc]
    ELSE IF "NIVEL" \notin DOMAIN row THEN [dic |-> d, exc |-> "KeyError"]
    ELSE IF int(row["NIVEL"]).exc # "" THEN [dic |-> d, exc |-> int(row["NIVEL"]).exc]
    ELSE LET torre_id == int(row["TORRE"]).val
             nivel_id == int(row["NIVEL"]).val
             d1 == ConTorre(d, torre_id)
             sin_nombre == d1[torre_id].nombre = <<>> \/ d1[torre_id].nombre = None
         IN IF sin_nombre /\ "torre_nombre" \notin DOMAIN row
            THEN [dic |-> d1, exc |-> "KeyError"]
            ELSE [dic |-> [d1 EXCEPT ![torre_id] =
                             [nombre |-> IF sin_nombre THEN row["torre_nombre"] ELSE @.nombre,
                              niveles |-> ConNivel(@.niveles, nivel_id, row),
                              switches |-> ConSwitches(@.switches, row)]],
                  exc |-> ""]

\* One turn of the loop of line 75.  ValueError and KeyError are caught at
\* line 110 and the loop goes on; any other exception leaves the function
\* and is caught by main (line 667), which ends the run.
LeerFila ==
    /\ pc = "cargar"
    /\ filas # <<>>
    /\ LET r == ProcesarFila(dic, Head(filas))
       IN IF r.exc \in {"", "ValueError", "KeyError"}
          THEN /\ dic' = r.dic
               /\ filas' = Tail(filas)
               /\ pc' = "cargar"
          ELSE /\ dic' = r.dic
               /\ filas' = filas
               /\ pc' = "error_carga"
    /\ UNCHANGED <<cfg, torres, coords, alturas_niveles, out, corrida, out1>>

\* lines 114-117: the list sorted by tower id
torres_list(d) ==
    LET claves == SortedInts(DOMAIN d)
    IN [j \in 1..Len(claves) |-> Torre(d[claves[j]].switches, d[claves[j]].niveles)]

\* The end of the file: cargar_datos_csv returns and main (lines 656-662)
\* stops on an empty list or calls generar_lisp.
TerminarCarga ==
    /\ pc = "cargar"
    /\ filas = <<>>
    /\ torres' = torres_list(dic)
    /\ pc' = IF torres_list(dic) = <<>> THEN "sin_datos" ELSE "abrir"
    /\ UNCHANGED <<cfg, coords, alturas_niveles, out, corrida, out1, filas, dic>>

\* Row family: rows of towers 0 and 1 with an access-point quantity that is a
\* number, a negative number or not a number, with or without the WiFi switch
\* and the UPS; rows of a first floor; rows with a TORRE or NIVEL that is not
\* an integer, and a short row that ends before NIVEL.
Fila(t, n, q, w) ==
    [TORRE |-> t, NIVEL |-> n, torre_nombre |-> <<"T">>, apQty |-> q,
     switch_wifi |-> w, switch_UPS |-> w]

FilasCarga ==
    {Fila(t, <<"0">>, q, w) : t \in {<<"0">>, <<"1">>}, q \in {<<"2">>, <<"-", "1">>},
                              w \in {<<"0">>, <<"1">>}}
    \cup {Fila(<<"1">>, <<"0">>, <<"x">>, <<"1">>),
          Fila(<<"0">>, <<"1">>, <<"2">>, <<"1">>),
          Fila(<<"1">>, <<" ", "1">>, <<"2">>, <<"1">>),
          Fila(<<"x">>, <<"0">>, <<"2">>, <<"1">>),
          Fila(<<"0">>, <<"1", ".", "5">>, <<"2">>, <<"1">>),
          Fila(<<"0">>, None, None, None)}

\* the same row read under a header without the torre_nombre column
SinColumnaNombre(row) == [c \in DOMAIN row \ {"torre_nombre"} |-> row[c]]

ArchivosCSV ==
    LET conNombre == UNION {[1..k -> FilasCarga] : k \in 0..MaxFilas}
    IN conNombre \cup {[j \in 1..Len(a) |-> SinColumnaNombre(a[j])] : a \in conNombre}

(***************************************************************************)
(* State after the caller has loaded cfg and torres.                       *)
(***************************************************************************)
\* coords = defaultdict(dict) (line 445); claves holds the tower ids that are
\* keys of it
CoordsVacio == [switches |-> <<>>, ups_coord |-> <<>>, disp |-> <<>>, claves |-> {}]

InitCon(listas, cfgs) ==
    /\ cfg \in cfgs
    /\ torres \in listas
    /\ coords = CoordsVacio
    /\ alturas_niveles = <<>>
    /\ out = <<>>
    /\ pc = "abrir"
    /\ corrida = 1
    /\ out1 = <<>>
    /\ filas = <<>>
    /\ dic = <<>>

Init == InitCon(ListasDe(TorresTopologia, MaxTorres), {CfgBase})

InitPila == InitCon(ListasDe(TorresPila, MaxTorresPila), {CfgBase, CfgAngosto, CfgApretado})

InitDos == InitCon(ListasDe(TorresTopologia, MaxTorresDos), {CfgBase, CfgAngosto, CfgConUPS})

InitUTP == InitCon(ListasDe(TorresUTP, MaxTorresUTP), {CfgBase, CfgSinDato})

\* main before cargar_datos_csv reads the first row
InitCarga ==
    /\ cfg = CfgBase
    /\ torres = <<>>
    /\ coords = CoordsVacio
    /\ alturas_niveles = <<>>
    /\ out = <<>>
    /\ pc = "cargar"
    /\ corrida = 1
    /\ out1 = <<>>
    /\ filas \in ArchivosCSV
    /\ dic = <<>>

InitFibra == InitCon(ListasDe(TorresFibra, MaxTorresFibra), {CfgBase})

InitNiveles == InitCon(ListasDe(TorresNiveles, MaxTorresNiv), {CfgBase, CfgSinDato})

(***************************************************************************)
(* 0. Opening of the script (generar_lisp, lines 425-442): the output file *)
(* is created or truncated and the AutoCAD set-up and layer directives are *)
(* written.                                                                *)
(***************************************************************************)
Inicio == Dir("inicio", "inicio", "", <<>>, <<0, "">>, <<>>)

AbrirArchivo ==
    /\ pc = "abrir"
    /\ out' = <<Inicio>>
    /\ pc' = "calc_x"
    /\ UNCHANGED <<cfg, torres, coords, alturas_niveles, corrida, out1, filas, dic>>

(***************************************************************************)
(* 1. X of each tower (generar_lisp, lines 447-452).                       *)
(***************************************************************************)
\* a tower without switches takes no slot
RECURSIVE x_torre_sin_vacias(_)
x_torre_sin_vacias(i) ==
    IF i = 0 THEN cfg.X_INICIAL
    ELSE x_torre_sin_vacias(i - 1)
         + (IF torres[i].switches = <<>> THEN 0
            ELSE cfg.LONGITUD_PISO + cfg.SEPARACION_ENTRE_TORRES)

RECURSIVE x_torre_actual(_)
x_torre_actual(i) ==
    IF i = 0 THEN cfg.X_INICIAL
    ELSE x_torre_actual(i - 1) + cfg.LONGITUD_PISO + cfg.SEPARACION_ENTRE_TORRES

\* the offset of the slot is added to the 'x' a previous call left in the record
CalcularXSobreAnterior ==
    /\ pc = "calc_x"
    /\ torres' = [i \in 1..Len(torres) |->
                    [torres[i] EXCEPT !.id = i - 1,
                                      !.x = (IF @ = -1 THEN 0 ELSE @) + x_torre_actual(i - 1)]]
    /\ pc' = "calc_y"
    /\ UNCHANGED <<cfg, coords, alturas_niveles, out, corrida, out1, filas, dic>>

CalcularX ==
    /\ pc = "calc_x"
    /\ torres' = [i \in 1..Len(torres) |->
                    [torres[i] EXCEPT !.id = i - 1, !.x = x_torre_actual(i - 1)]]
    /\ pc' = "calc_y"
    /\ UNCHANGED <<cfg, coords, alturas_niveles, out, corrida, out1, filas, dic>>

(***************************************************************************)
(* 2. Y of each level (generar_lisp, lines 454-471).                       *)
(***************************************************************************)
IdsNiveles(t) == {t.niveles[j].id : j \in 1..Len(t.niveles)}

NivelData(t, nid) == (CHOOSE n \in Rango(t.niveles) : n.id = nid).qty

niveles_ordenados == SortedInts(UNION {IdsNiveles(torres[i]) : i \in 1..Len(torres)})

num_devices(t, nid) ==
    Cardinality({k \in DOMAIN cfg.DISPOSITIVOS : NivelData(t, nid)[k] > 0})

\* the device rows of the towers added up instead of the busiest tower's
max_devices_sumados(nid) ==
    SumaSeq([i \in 1..Len(torres) |->
               IF nid \in IdsNiveles(torres[i]) THEN num_devices(torres[i], nid) ELSE 0])

max_devices_in_level(nid) ==
    MaxDe({0} \cup {num_devices(torres[i], nid) :
                      i \in {j \in 1..Len(torres) : nid \in IdsNiveles(torres[j])}})

\* the height of the device rows alone, without the gap between levels
level_height_sin_espacio(nid) == max_devices_in_level(nid) * cfg.DISPOSITIVO_ESPACIADO_Y

level_height(nid) ==
    max_devices_in_level(nid) * cfg.DISPOSITIVO_ESPACIADO_Y + cfg.ESPACIO_ENTRE_NIVELES

\* the (level id, Y) pairs written while y_nivel_actual accumulates
RECURSIVE AlturasDesde(_, _)
AlturasDesde(ns, y_nivel_actual) ==
    IF ns = <<>> THEN <<>>
    ELSE <<<<Head(ns), y_nivel_actual>>>>
         \o AlturasDesde(Tail(ns), y_nivel_actual + level_height(Head(ns)))

CalcularY ==
    /\ pc = "calc_y"
    /\ LET pares == AlturasDesde(niveles_ordenados, cfg.Y_INICIAL)
       IN alturas_niveles' =
            [nid \in {pares[j][1] : j \in 1..Len(pares)} |->
               (CHOOSE p \in Rango(pares) : p[1] = nid)[2]]
    /\ pc' = "torres"
    /\ UNCHANGED <<cfg, torres, coords, out, corrida, out1, filas, dic>>

(***************************************************************************)
(* 3. Per tower: label, switch/UPS stack, device icons                     *)
(*    (generar_lisp, lines 474-527).                                       *)
(***************************************************************************)
\* the switches in the order of the input records
items_en_orden_de_registro(t) == Filtrar(t.switches, Rango(draw_order))

items_a_dibujar(t) == Filtrar(draw_order, Rango(t.switches))

\* a stack that leaves SWITCH_VERTICAL_SPACING between the facing edges of boxes
RECURSIVE PilaConHueco(_, _, _)
PilaConHueco(torre_id, items, y_cursor) ==
    IF items = <<>> THEN <<>>
    ELSE IF Head(items) = "SW-UPS"
         THEN IF torre_id = 0
              THEN <<[item |-> "SW-UPS", y |-> y_cursor - cfg.UPS_ALTO]>>
                   \o PilaConHueco(torre_id, Tail(items),
                                   y_cursor - cfg.UPS_ALTO - cfg.UPS_SWITCH_GAP)
              ELSE PilaConHueco(torre_id, Tail(items), y_cursor)
         ELSE <<[item |-> Head(items), y |-> y_cursor - cfg.SWITCH_ALTO]>>
              \o PilaConHueco(torre_id, Tail(items),
                              y_cursor - cfg.SWITCH_ALTO - cfg.SWITCH_VERTICAL_SPACING)

\* The boxes placed while y_cursor walks down reversed(items_a_dibujar):
\* [item, y] with y the lower edge of the box.  A UPS entry of a tower other
\* than tower 0 places nothing and leaves the cursor alone.
RECURSIVE Pila(_, _, _)
Pila(torre_id, items, y_cursor) ==
    IF items = <<>> THEN <<>>
    ELSE IF Head(items) = "SW-UPS"
         THEN IF torre_id = 0
              THEN <<[item |-> "SW-UPS", y |-> y_cursor - cfg.UPS_ALTO]>>
                   \o Pila(torre_id, Tail(items),
                           y_cursor - cfg.UPS_ALTO - cfg.UPS_SWITCH_GAP)
              ELSE Pila(torre_id, Tail(items), y_cursor)
         ELSE <<[item |-> Head(items), y |-> y_cursor - cfg.SWITCH_ALTO]>>
              \o Pila(torre_id, Tail(items),
                      y_cursor - cfg.SWITCH_ALTO
                        - (cfg.SWITCH_VERTICAL_SPACING - cfg.SWITCH_ALTO))

y_sotano == IF 0 \in DOMAIN alturas_niveles THEN alturas_niveles[0] ELSE cfg.Y_INICIAL

PilaDeTorre(t) ==
    LET items == items_a_dibujar(t)
    IN Pila(t.id, Invertir(items), IF items # <<>> THEN y_sotano - 50 ELSE y_sotano)

\* coords[torre_id]['switches']: (kind, point) pairs in insertion order
CoordsSwitches(t) ==
    LET cajas == PilaDeTorre(t)
        sw(j) == <<cajas[j].item,
                   <<t.x + 50 + Mitad(cfg.SWITCH_ANCHO), cajas[j].y + cfg.SWITCH_ALTO>>>>
    IN Aplanar([j \in 1..Len(cajas) |->
                  IF cajas[j].item = "SW-UPS" THEN <<>> ELSE <<sw(j)>>])

\* coords['ups_coord'] as written for tower t: empty, or the one point
CoordUps(t) ==
    LET cajas == PilaDeTorre(t)
    IN Aplanar([j \in 1..Len(cajas) |->
                  IF cajas[j].item = "SW-UPS"
                  THEN <<<<t.x + 50 + Mitad(cfg.UPS_ANCHO), cajas[j].y + Mitad(cfg.UPS_ALTO)>>>>
                  ELSE <<>>])

\* dibujar_ups / dibujar_switch
DibujoPila(t) ==
    LET cajas == PilaDeTorre(t)
        x_pos == t.x + 50
        caja(j) ==
            IF cajas[j].item = "SW-UPS"
            THEN << Rectangulo("torre", "ups", <<x_pos, cajas[j].y>>,
                               <<x_pos + cfg.UPS_ANCHO, cajas[j].y + cfg.UPS_ALTO>>,
                               <<t.id, "SW-UPS">>),
                    Texto("torre", "ups", <<x_pos + 25, cajas[j].y + 25>>, 0, "UPS",
                          <<t.id, "SW-UPS">>),
                    Texto("torre", "ups", <<x_pos + 5, cajas[j].y - 20>>, 0, "ALIMENTACION",
                          <<t.id, "SW-UPS">>) >>
            ELSE << Rectangulo("torre", "switch", <<x_pos, cajas[j].y>>,
                               <<x_pos + cfg.SWITCH_ANCHO, cajas[j].y + cfg.SWITCH_ALTO>>,
                               <<t.id, cajas[j].item>>),
                    Texto("torre", "switch",
                          <<x_pos + Mitad(cfg.SWITCH_ANCHO), cajas[j].y + Mitad(cfg.SWITCH_ALTO)>>,
                          0, cajas[j].item, <<t.id, cajas[j].item>>) >>
    IN Aplanar([j \in 1..Len(cajas) |-> caja(j)])

\* The icons of one level: [tipo, label, cantidad, p] while y_dispositivo_cursor
\* climbs; a kind without configuration or with quantity <= 0 places nothing.
RECURSIVE IconosNivel(_, _, _, _)
IconosNivel(tipos, qty, x_dispositivo, y_dispositivo_cursor) ==
    IF tipos = <<>> THEN <<>>
    ELSE IF Head(tipos) \in DOMAIN cfg.DISPOSITIVOS /\ qty[Head(tipos)] > 0
         THEN <<[tipo |-> Head(tipos), label |-> cfg.DISPOSITIVOS[Head(tipos)],
                 cantidad |-> qty[Head(tipos)],
                 p |-> <<x_dispositivo, y_dispositivo_cursor>>]>>
              \o IconosNivel(Tail(tipos), qty, x_dispositivo,
                             y_dispositivo_cursor + cfg.DISPOSITIVO_ESPACIADO_Y)
         ELSE IconosNivel(Tail(tipos), qty, x_dispositivo, y_dispositivo_cursor)

IconosDe(t, nivel) ==
    IconosNivel(device_draw_order, nivel.qty, t.x + 150,
                alturas_niveles[nivel.id] + cfg.DISPOSITIVO_Y_OFFSET)

DibujoIconos(t, nivel) ==
    LET ic == IconosDe(t, nivel)
    IN Aplanar([j \in 1..Len(ic) |->
         << Dir("icono", "torre", ic[j].tipo, <<ic[j].p>>, <<0, "">>,
                <<t.id, ic[j].tipo, nivel.id>>),
            Texto("torre", "dispositivo", <<ic[j].p[1], ic[j].p[2] - 20>>,
                  ic[j].cantidad, ic[j].label, <<t.id, ic[j].tipo, nivel.id>>) >>])

\* the entries coords[torre_id]['disp_<nivel>_<label>'] of tower t
CoordsDisp(t) ==
    LET porNivel(nivel) == {<<<<t.id, nivel.id, e.label>>, e.p>> : e \in Rango(IconosDe(t, nivel))}
    IN UNION {porNivel(nivel) : nivel \in Rango(t.niveles)}

DibujoTorre(t) ==
    <<Texto("torre", "nombre",
            <<t.x, alturas_niveles[MinDe(DOMAIN alturas_niveles)] - cfg.TORRE_LABEL_OFFSET_Y>>,
            0, "nombre", <<t.id>>)>>
    \o DibujoPila(t)
    \o Aplanar([j \in 1..Len(t.niveles) |-> DibujoIconos(t, t.niveles[j])])

\* a key made only for the towers with a recorded switch box
ClavesCoordsConCaja == {torres[i].id : i \in {j \in 1..Len(torres) : CoordsSwitches(torres[j]) # <<>>}}

\* line 494: coords[torre_id]['switches'] = {} makes the key of every tower
ClavesCoords == {torres[i].id : i \in 1..Len(torres)}

\* coords after the reads coords[k] for k in ids: a defaultdict makes the
\* missing keys
Leido(c, ids) == [c EXCEPT !.claves = @ \cup ids]

DibujarTorres ==
    /\ pc = "torres"
    /\ IF DOMAIN alturas_niveles = {}
       THEN \* min() of an empty sequence: ValueError
            /\ pc' = "error_torres"
            /\ UNCHANGED <<coords, out>>
       ELSE LET ups == CoordUps(torres[1])
                pares == UNION {CoordsDisp(torres[i]) : i \in 1..Len(torres)}
            IN /\ coords' =
                    [switches |-> [tid \in 0..(Len(torres) - 1) |-> CoordsSwitches(torres[tid + 1])],
                     ups_coord |-> ups,
                     claves |-> ClavesCoords,
                     disp |-> [k \in {pr[1] : pr \in pares} |->
                                 (CHOOSE pr \in pares : pr[1] = k)[2]]]
               /\ out' = out \o Aplanar([i \in 1..Len(torres) |-> DibujoTorre(torres[i])])
               /\ pc' = "niveles"
    /\ UNCHANGED <<cfg, torres, alturas_niveles, corrida, out1, filas, dic>>

(***************************************************************************)
(* 4. Level guide lines (generar_lisp, lines 529-543).                     *)
(***************************************************************************)
LineasNivel ==
    LET ns == SortedInts(DOMAIN alturas_niveles)
        x_start_nivel ==
            IF coords.ups_coord # <<>>
            THEN coords.ups_coord[1][1] - Mitad(cfg.UPS_ANCHO) - 20
            ELSE cfg.X_INICIAL - 50
        x_fin == torres[Len(torres)].x + cfg.LONGITUD_PISO + 50
    IN Aplanar([j \in 1..Len(ns) |->
         << Linea("nivel", "guia", <<x_start_nivel, alturas_niveles[ns[j]]>>,
                  <<x_fin, alturas_niveles[ns[j]]>>, <<ns[j]>>),
            Texto("nivel", "nombre", <<x_start_nivel + 10, alturas_niveles[ns[j]] + 10>>,
                  0, "nivel_nombre", <<ns[j]>>) >>])

DibujarLineasNivel ==
    /\ pc = "niveles"
    /\ out' = out \o LineasNivel
    /\ pc' = "utp"
    /\ UNCHANGED <<cfg, torres, coords, alturas_niveles, corrida, out1, filas, dic>>

(***************************************************************************)
(* Reads of the coordinate index.                                          *)
(***************************************************************************)
ClavesSwitches(torre_id) == {pr[1] : pr \in Rango(coords.switches[torre_id])}

CoordSwitch(torre_id, sw) ==
    (CHOOSE pr \in Rango(coords.switches[torre_id]) : pr[1] = sw)[2]

(***************************************************************************)
(* 5. UTP router (dibujar_cableado_utp, lines 271-356).                    *)
(***************************************************************************)
max_x_dispositivo(t) ==
    MaxDe({0} \cup
          {t.x + 150
             + Cardinality({k \in Rango(device_draw_order) : nivel.qty[k] > 0})
               * cfg.DISPOSITIVO_ESPACIADO_X : nivel \in Rango(t.niveles)})

\* a total that counts the occupied levels instead of adding their quantities
total_cables_niveles(t, tipo_qty) ==
    Cardinality({j \in 1..Len(t.niveles) : t.niveles[j].qty[tipo_qty] > 0})

total_cables(t, tipo_qty) == SumaSeq([j \in 1..Len(t.niveles) |-> t.niveles[j].qty[tipo_qty]])

\* levels holding the kind, in the insertion order of the 'niveles' dict
niveles_con_dispositivo(t, tipo_qty) ==
    Aplanar([j \in 1..Len(t.niveles) |->
               IF t.niveles[j].qty[tipo_qty] > 0 THEN <<t.niveles[j]>> ELSE <<>>])

\* lines 296-305: is the kind drawn for tower t
SeDibujaUTP(t, tipo_qty) ==
    /\ tipo_qty \in DOMAIN cfg.DISPOSITIVOS
    /\ tipo_qty \in DOMAIN cfg.MAPEO_SWITCH
    /\ cfg.MAPEO_SWITCH[tipo_qty] \in ClavesSwitches(t.id)
    /\ \E nivel \in Rango(t.niveles) : nivel.qty[tipo_qty] > 0

\* lines 307-352 for one drawn kind, its trunk at x_troncal
TroncalUTP(t, tipo_qty, x_troncal) ==
    LET label == cfg.DISPOSITIVOS[tipo_qty]
        p_sw_top == CoordSwitch(t.id, cfg.MAPEO_SWITCH[tipo_qty])
        p_sw_lado == <<p_sw_top[1] + Mitad(cfg.SWITCH_ANCHO), p_sw_top[2] - Mitad(cfg.SWITCH_ALTO)>>
        p1 == <<p_sw_lado[1] + 10, p_sw_lado[2]>>
        p2 == <<p1[1] + 10, p1[2] + 10>>
        p3_base == <<x_troncal, p2[2]>>
        total == total_cables(t, tipo_qty)
        nivs == niveles_con_dispositivo(t, tipo_qty)
        nivel_mas_alto_id == MaxDe({nivs[j].id : j \in 1..Len(nivs)})
        y_troncal_top == alturas_niveles[nivel_mas_alto_id] + cfg.DISPOSITIVO_Y_OFFSET
        ramal(nivel) ==
            LET p_disp == coords.disp[<<t.id, nivel.id, label>>]
                y_nivel_actual == alturas_niveles[nivel.id]
                y_nivel_anterior ==
                    IF nivel.id - 1 \in DOMAIN alturas_niveles
                    THEN alturas_niveles[nivel.id - 1]
                    ELSE IF 0 \in DOMAIN alturas_niveles THEN alturas_niveles[0]
                         ELSE cfg.Y_INICIAL
                ref == <<t.id, tipo_qty, nivel.id>>
            IN << Polilinea("utp", "ramal",
                            << <<x_troncal, p_disp[2] - 20>>,
                               <<p_disp[1] - 10, p_disp[2] - 20>>,
                               <<p_disp[1] - 10, p_disp[2]>> >>, ref),
                  Linea("utp", "ramal_fin", <<p_disp[1] - 10, p_disp[2]>>, p_disp, ref),
                  Texto("utp", "nivel",
                        <<x_troncal + 15, Mitad(y_nivel_actual + y_nivel_anterior) + 10>>,
                        nivel.qty[tipo_qty], label, ref) >>
    IN (IF total > 0
        THEN <<Texto("utp", "total", <<p_sw_lado[1] + 15, p_sw_lado[2] + 15>>,
                     total, "xUTP", <<t.id, tipo_qty>>)>>
        ELSE <<>>)
       \o <<Polilinea("utp", "acometida", <<p_sw_lado, p1, p2, p3_base>>, <<t.id, tipo_qty>>)>>
       \o <<Linea("utp", "troncal", p3_base, <<x_troncal, y_troncal_top>>, <<t.id, tipo_qty>>)>>
       \o Aplanar([j \in 1..Len(nivs) |-> ramal(nivs[j])])

\* the loop with offset_troncal_x advanced for every kind visited, drawn or not
RECURSIVE TroncalesUTPPorTipo(_, _, _)
TroncalesUTPPorTipo(t, tipos, offset_troncal_x) ==
    IF tipos = <<>> THEN <<>>
    ELSE (IF SeDibujaUTP(t, Head(tipos))
          THEN TroncalUTP(t, Head(tipos), max_x_dispositivo(t) + 50 + offset_troncal_x)
          ELSE <<>>)
         \o TroncalesUTPPorTipo(t, Tail(tipos), offset_troncal_x + 30)

\* the loop over device_draw_order; offset_troncal_x advances per drawn kind
RECURSIVE TroncalesUTP(_, _, _)
TroncalesUTP(t, tipos, offset_troncal_x) ==
    IF tipos = <<>> THEN <<>>
    ELSE IF SeDibujaUTP(t, Head(tipos))
         THEN TroncalUTP(t, Head(tipos), max_x_dispositivo(t) + 50 + offset_troncal_x)
              \o TroncalesUTP(t, Tail(tipos), offset_troncal_x + 30)
         ELSE TroncalesUTP(t, Tail(tipos), offset_troncal_x)

CableadoUTPTorre(t) ==
    IF t.switches = <<>> THEN <<>> ELSE TroncalesUTP(t, device_draw_order, 0)

\* the towers whose coords[torre_id] line 301 reads: towers with switches, once
\* a device kind is configured and mapped
LecturasUTP ==
    {torres[i].id : i \in {j \in 1..Len(torres) :
        /\ torres[j].switches # <<>>
        /\ \E tipo_qty \in Rango(device_draw_order) :
             tipo_qty \in DOMAIN cfg.DISPOSITIVOS /\ tipo_qty \in DOMAIN cfg.MAPEO_SWITCH}}

dibujar_cableado_utp ==
    /\ pc = "utp"
    /\ out' = out \o Aplanar([i \in 1..Len(torres) |-> CableadoUTPTorre(torres[i])])
    /\ coords' = Leido(coords, LecturasUTP)
    /\ pc' = "fibra"
    /\ UNCHANGED <<cfg, torres, alturas_niveles, corrida, out1, filas, dic>>

(***************************************************************************)
(* 6. Fiber router (dibujar_cableado_fibra, lines 358-421).                *)
(***************************************************************************)
idfs == Aplanar([i \in 1..Len(torres) |-> IF torres[i].id # 0 THEN <<torres[i]>> ELSE <<>>])

\* sorted(list(set(...))) of the configured switch kinds found in the IDFs
todos_sw_tipos_en_idfs ==
    Filtrar(orden_sorted,
            {sw \in UNION {Rango(idfs[j].switches) : j \in 1..Len(idfs)} :
               sw \in cfg.SWITCH_CONFIG})

idfs_con_este_switch(sw_tipo) ==
    Aplanar([j \in 1..Len(idfs) |->
               IF sw_tipo \in Rango(idfs[j].switches) THEN <<idfs[j]>> ELSE <<>>])

\* a read of coords[..]['switches'][..] that finds no such key
KeyError == Dir("KeyError", "", "", <<>>, <<0, "">>, <<>>)

Termina(dirs) == dirs = <<>> \/ dirs[Len(dirs)] # KeyError

\* lines 397-417: one segment, label and rise per IDF, fibras_restantes counting down
RECURSIVE TramosFibra(_, _, _, _, _)
TramosFibra(sw_tipo, destinos, y_bandeja, punto_anterior_horizontal, fibras_restantes) ==
    IF destinos = <<>> THEN <<>>
    ELSE LET idf == Head(destinos)
         IN IF sw_tipo \notin ClavesSwitches(idf.id) THEN <<KeyError>>
            ELSE LET p_idf_sw == CoordSwitch(idf.id, sw_tipo)
                     p_subida_idf == <<p_idf_sw[1] - 50, y_bandeja>>
                     p_dest_idf == <<p_idf_sw[1], p_idf_sw[2] - Mitad(cfg.SWITCH_ALTO)>>
                     ref == <<idf.id, sw_tipo>>
                 IN << Linea("fibra", "bus", punto_anterior_horizontal, p_subida_idf, ref),
                       Texto("fibra", "bus",
                             <<Mitad(punto_anterior_horizontal[1] + p_subida_idf[1]), y_bandeja + 10>>,
                             fibras_restantes, "xFO", ref),
                       Linea("fibra", "subida", p_subida_idf, p_dest_idf, ref) >>
                    \o TramosFibra(sw_tipo, Tail(destinos), y_bandeja, p_subida_idf,
                                   fibras_restantes - 1)

\* lines 373-419: the loop over the kinds; y_offset advances per drawn kind
RECURSIVE BandejasFibra(_, _, _)
BandejasFibra(tipos, y_bandeja_start, y_offset) ==
    IF tipos = <<>> THEN <<>>
    ELSE LET sw_tipo == Head(tipos)
             destinos == idfs_con_este_switch(sw_tipo)
             y_bandeja == y_bandeja_start - y_offset
         IN IF sw_tipo \notin Rango(torres[1].switches) \/ destinos = <<>>
            THEN BandejasFibra(Tail(tipos), y_bandeja_start, y_offset)
            ELSE IF sw_tipo \notin ClavesSwitches(0) THEN <<KeyError>>
            ELSE LET p_mdf_sw == CoordSwitch(0, sw_tipo)
                     p_start_mdf == <<p_mdf_sw[1], p_mdf_sw[2] - Mitad(cfg.SWITCH_ALTO)>>
                     p_bajada_mdf == <<p_start_mdf[1] + 50, y_bandeja>>
                     tramos == TramosFibra(sw_tipo, destinos, y_bandeja, p_bajada_mdf,
                                           Len(destinos))
                 IN <<Linea("fibra", "bajada", p_start_mdf, p_bajada_mdf, <<0, sw_tipo>>)>>
                    \o tramos
                    \o (IF Termina(tramos)
                        THEN BandejasFibra(Tail(tipos), y_bandeja_start, y_offset + 40)
                        ELSE <<>>)

CableadoFibra ==
    LET y_ups == IF coords.ups_coord # <<>> THEN coords.ups_coord[1][2]
                 ELSE alturas_niveles[0] - 100
    IN BandejasFibra(todos_sw_tipos_en_idfs, y_ups - 150, 0)

\* the towers whose coords[..] lines 387 and 398 read: the root and the IDFs
\* holding a routed kind
LecturasFibra ==
    UNION {{0} \cup {idfs[j].id : j \in {k \in 1..Len(idfs) : sw \in Rango(idfs[k].switches)}} :
             sw \in {tipo \in Rango(todos_sw_tipos_en_idfs) :
                       tipo \in Rango(torres[1].switches)}}

dibujar_cableado_fibra ==
    /\ pc = "fibra"
    /\ IF 0 \notin DOMAIN alturas_niveles
       THEN \* line 366: the default alturas_niveles[0] - 100 is evaluated before
            \* coords.get looks for 'ups_coord': KeyError without a level 0
            /\ pc' = "error_fibra"
            /\ out' = out
            /\ coords' = coords
       ELSE LET dirs == CableadoFibra
            IN /\ coords' = Leido(coords, LecturasFibra)
               /\ IF Termina(dirs)
                  THEN /\ out' = out \o dirs
                       /\ pc' = "alimentacion"
                  ELSE /\ out' = out \o SubSeq(dirs, 1, Len(dirs) - 1)
                       /\ pc' = "error_fibra"
    /\ UNCHANGED <<cfg, torres, alturas_niveles, corrida, out1, filas, dic>>

(***************************************************************************)
(* 7. Power routing from the UPS (generar_lisp, lines 551-586).            *)
(***************************************************************************)
\* a power bus at a fixed distance below the UPS, whatever the number of fiber kinds
y_bandeja_ups_fija == coords.ups_coord[1][2] - 150 - 40

y_bandeja_ups == coords.ups_coord[1][2] - 150 - (Len(todos_sw_tipos_en_idfs) * 40) - 40

\* lines 565-570
max_x_switch ==
    MaxDe({0} \cup
          UNION {{CoordSwitch(torres[i].id, sw)[1] :
                    sw \in Rango(torres[i].switches) \ {"SW-UPS"}} : i \in 1..Len(torres)})

\* line 583: the riser is drawn only right of the UPS drop
ConRiser(p_rise_sw, p_drop_ups) == p_rise_sw[1] > p_drop_ups[1]

\* lines 576-584 for one tower
RisersTorre(t, p_drop_ups) ==
    LET sws == coords.switches[t.id]
        riser(pr) ==
            LET p_end_sw == <<pr[2][1], pr[2][2] - Mitad(cfg.SWITCH_ALTO)>>
                p_rise_sw == <<p_end_sw[1], y_bandeja_ups>>
            IN IF pr[1] # "SW-UPS" /\ ConRiser(p_rise_sw, p_drop_ups)
               THEN <<Linea("ups", "riser", p_rise_sw, p_end_sw, <<t.id, pr[1]>>)>>
               ELSE <<>>
    IN Aplanar([j \in 1..Len(sws) |-> riser(sws[j])])

\* power routing without the 'ups_coord' guard: the origin falls back to the
\* default the fiber router uses, (0, alturas_niveles[0] - 100)
AlimentacionSinGuarda ==
    LET p_origen_ups == IF coords.ups_coord # <<>> THEN coords.ups_coord[1]
                        ELSE <<0, alturas_niveles[0] - 100>>
        y_bus == p_origen_ups[2] - 150 - (Len(todos_sw_tipos_en_idfs) * 40) - 40
        p_drop_ups == <<p_origen_ups[1], y_bus>>
    IN <<Linea("ups", "bajada", p_origen_ups, p_drop_ups, <<0, "SW-UPS">>)>>
       \o (IF max_x_switch > 0
           THEN <<Linea("ups", "bus", p_drop_ups, <<max_x_switch, y_bus>>, <<0, "SW-UPS">>)>>
           ELSE <<>>)

Alimentacion ==
    IF coords.ups_coord = <<>> THEN <<>>
    ELSE LET p_origen_ups == coords.ups_coord[1]
             p_drop_ups == <<p_origen_ups[1], y_bandeja_ups>>
         IN <<Linea("ups", "bajada", p_origen_ups, p_drop_ups, <<0, "SW-UPS">>)>>
            \o (IF max_x_switch > 0
                THEN <<Linea("ups", "bus", p_drop_ups, <<max_x_switch, y_bandeja_ups>>,
                             <<0, "SW-UPS">>)>>
                ELSE <<>>)
            \o Aplanar([i \in 1..Len(torres) |->
                          IF torres[i].id \in coords.claves
                          THEN RisersTorre(torres[i], p_drop_ups) ELSE <<>>])

\* the towers whose coords[..] line 569 reads: with a UPS drawn, the towers
\* holding a switch other than the UPS (line 578 reads only keys it has tested)
LecturasAlimentacion ==
    IF coords.ups_coord = <<>> THEN {}
    ELSE {torres[i].id : i \in {j \in 1..Len(torres) :
            Rango(torres[j].switches) \ {"SW-UPS"} # {}}}

DibujarAlimentacion ==
    /\ pc = "alimentacion"
    /\ out' = out \o Alimentacion
    /\ coords' = Leido(coords, LecturasAlimentacion)
    /\ pc' = "finalizar"
    /\ UNCHANGED <<cfg, torres, alturas_niveles, corrida, out1, filas, dic>>

(***************************************************************************)
(* 8. Closing directives (generar_lisp, lines 588-594).                    *)
(***************************************************************************)
Finalizar ==
    /\ pc = "finalizar"
    /\ out' = out \o <<Dir("fin", "fin", "", <<>>, <<0, "">>, <<>>)>>
    /\ pc' = "done"
    /\ UNCHANGED <<cfg, torres, coords, alturas_niveles, corrida, out1, filas, dic>>

(***************************************************************************)
(* A second call of generar_lisp(cfg, torres) on the same objects, after   *)
(* the first has returned or raised: the                                   *)
(* tower records keep the 'id' and 'x' written by the first call; coords,  *)
(* alturas_niveles and the output file start afresh.                       *)
(***************************************************************************)
SegundaCorrida ==
    /\ pc \in {"done", "error_torres", "error_fibra"}
    /\ corrida = 1
    /\ corrida' = 2
    /\ out1' = out
    /\ out' = <<>>
    /\ coords' = CoordsVacio
    /\ alturas_niveles' = <<>>
    /\ pc' = "abrir"
    /\ UNCHANGED <<cfg, torres, filas, dic>>

Next ==
    \/ AbrirArchivo
    \/ CalcularX
    \/ CalcularY
    \/ DibujarTorres
    \/ DibujarLineasNivel
    \/ dibujar_cableado_utp
    \/ dibujar_cableado_fibra
    \/ DibujarAlimentacion
    \/ Finalizar

Spec == Init /\ [][Next]_vars

SpecPila == InitPila /\ [][Next]_vars

SpecUTP == InitUTP /\ [][Next]_vars

SpecNiveles == InitNiveles /\ [][Next]_vars

SpecFibra == InitFibra /\ [][Next]_vars

NextCarga == LeerFila \/ TerminarCarga \/ Next

SpecCarga == InitCarga /\ [][NextCarga]_vars

NextDos == Next \/ SegundaCorrida

SpecDos == InitDos /\ [][NextDos]_vars

(***************************************************************************)
(* Properties.                                                             *)
(***************************************************************************)
DespuesUTP == {"fibra", "alimentacion", "finalizar", "done", "error_fibra"}

DespuesFibra == {"alimentacion", "finalizar", "done", "error_fibra"}

DespuesAlimentacion == {"finalizar", "done"}

\* the directives of out, in order, that satisfy Es
Emitidos(Es(_)) == SelectSeq(out, Es)

Numeros(dirs) == [j \in 1..Len(dirs) |-> dirs[j].txt[1]]

\* C1: once the UTP router has run, for every tower and every device kind with
\* a device configuration, a mapped switch among the tower's switches and a
\* total quantity T > 0 over the tower's levels (all quantities >= 0), the
\* output holds exactly one switch-side total label, showing T, exactly one
\* per-level label for each level whose quantity is > 0 and none for the
\* others, each showing its level's quantity, and those quantities add up to T.
C1_EtiquetasUTP ==
    pc \in DespuesUTP =>
      \A i \in 1..Len(torres), tipo \in Rango(device_draw_order) :
        LET t == torres[i]
            T == SumaSeq([j \in 1..Len(t.niveles) |-> t.niveles[j].qty[tipo]])
            totales == Emitidos(LAMBDA d : d.src = "utp" /\ d.rol = "total"
                                           /\ d.ref = <<t.id, tipo>>)
            porNivel == Emitidos(LAMBDA d : d.src = "utp" /\ d.rol = "nivel"
                                            /\ d.ref[1] = t.id /\ d.ref[2] = tipo)
        IN (/\ tipo \in DOMAIN cfg.DISPOSITIVOS
            /\ tipo \in DOMAIN cfg.MAPEO_SWITCH
            /\ cfg.MAPEO_SWITCH[tipo] \in Rango(t.switches)
            /\ \A nivel \in Rango(t.niveles) : nivel.qty[tipo] >= 0
            /\ T > 0)
           => /\ Len(totales) = 1
              /\ totales[1].txt = <<T, "xUTP">>
              /\ \A nivel \in Rango(t.niveles) :
                   LET suyas == {j \in 1..Len(porNivel) : porNivel[j].ref[3] = nivel.id}
                   IN IF nivel.qty[tipo] > 0
                      THEN /\ Cardinality(suyas) = 1
                           /\ \A j \in suyas :
                                porNivel[j].txt = <<nivel.qty[tipo], cfg.DISPOSITIVOS[tipo]>>
                      ELSE suyas = {}
              /\ SumaSeq(Numeros(porNivel)) = T

\* C1 witness: a tower with a WiFi switch and access points on two levels,
\* two on one and one on the other, whose total label shows 3
C1_Witness ==
    /\ pc = "fibra"
    /\ \E i \in 1..Len(torres) :
         /\ "SW-WIFI" \in Rango(torres[i].switches)
         /\ Len(torres[i].niveles) = 2
         /\ \E j, k \in 1..2 : /\ torres[i].niveles[j].qty["apQty"] = 2
                               /\ torres[i].niveles[k].qty["apQty"] = 1
         /\ \E n \in 1..Len(out) :
              /\ out[n].src = "utp" /\ out[n].rol = "total"
              /\ out[n].ref = <<torres[i].id, "apQty">>
              /\ out[n].txt[1] = 3

\* the ids of the branch towers (every tower but the first) that declare sw,
\* in ascending order
RamasCon(sw) ==
    Aplanar([i \in 1..Len(torres) |->
               IF i > 1 /\ sw \in Rango(torres[i].switches) THEN <<i - 1>> ELSE <<>>])

\* the fiber bus labels of kind sw are Len(RamasCon(sw)), ..., 1, one per
\* branch tower in ascending tower id
CuentaRegresivaFibra(sw) ==
    LET ramas == RamasCon(sw)
        k == Len(ramas)
        etiquetas == Emitidos(LAMBDA d : d.src = "fibra" /\ d.op = "texto" /\ d.ref[2] = sw)
    IN /\ Len(etiquetas) = k
       /\ \A j \in 1..Len(etiquetas) :
            /\ etiquetas[j].txt = <<k - j + 1, "xFO">>
            /\ etiquetas[j].ref[1] = ramas[j]
            /\ etiquetas[j].txt[1] # 0

\* C2: once dibujar_cableado_fibra has been run, returned or raised, for every
\* configured switch kind present in the root tower and in exactly k >= 1
\* branch towers the output holds exactly k bus labels of that kind, showing
\* k, k-1, ..., 1 in ascending branch tower id; the last shows 1, none shows 0.
C2_BusFibra ==
    pc \in DespuesFibra =>
      \A sw \in cfg.SWITCH_CONFIG :
        (sw \in Rango(torres[1].switches) /\ Len(RamasCon(sw)) >= 1)
          => CuentaRegresivaFibra(sw)

\* C2, where the fiber router returns (some tower has a level 0): the labels
\* of every such kind count down k, ..., 1 in ascending branch tower id.
C2_BusFibraSiTermina ==
    pc \in DespuesAlimentacion \cup {"alimentacion"} =>
      \A sw \in cfg.SWITCH_CONFIG :
        (sw \in Rango(torres[1].switches) /\ Len(RamasCon(sw)) >= 1)
          => CuentaRegresivaFibra(sw)

RaizConUPS == "SW-UPS" \in Rango(torres[1].switches)

SinUPS == \A i \in 1..Len(torres) : "SW-UPS" \notin Rango(torres[i].switches)

\* C3: when the power routing has run with a UPS, every riser comes with a
\* label, and the labels of n risers show n, n-1, ..., 1.
C3_EtiquetasAlimentacion ==
    (pc \in DespuesAlimentacion /\ RaizConUPS) =>
      LET risers == Emitidos(LAMBDA d : d.src = "ups" /\ d.rol = "riser")
          etiquetas == Emitidos(LAMBDA d : d.src = "ups" /\ d.op = "texto")
      IN /\ Len(etiquetas) = Len(risers)
         /\ \A j \in 1..Len(etiquetas) : etiquetas[j].txt[1] = Len(risers) - j + 1

\* C4: when the power routing has run and the root tower has a UPS, there is
\* a riser to every switch box of every tower, the root's included, and none
\* to the UPS.
C4_RiserATodos ==
    (pc \in DespuesAlimentacion /\ RaizConUPS) =>
      /\ \A i \in 1..Len(torres) :
           \A sw \in Rango(torres[i].switches) \ {"SW-UPS"} :
             \E n \in 1..Len(out) :
               /\ out[n].src = "ups" /\ out[n].rol = "riser"
               /\ out[n].ref = <<i - 1, sw>>
      /\ \A n \in 1..Len(out) :
           (out[n].src = "ups" /\ out[n].rol = "riser") => out[n].ref[2] # "SW-UPS"

\* C5: in a model without any UPS no directive of the power routing is ever
\* in the output; the power-routing step leaves the output as it was and hands
\* over to the closing step, which completes the script.
C5_SinUPS ==
    [][SinUPS =>
         /\ \A n \in 1..Len(out') : out'[n].src # "ups"
         /\ pc = "alimentacion" => (pc' = "finalizar" /\ out' = out)
         /\ pc = "finalizar" => (pc' = "done" /\ out'[Len(out')].op = "fin")]_vars

\* C5 witness: a completed script for three towers with switches and no UPS
C5_Witness ==
    /\ pc = "done"
    /\ SinUPS
    /\ Len(torres) = 3
    /\ \A i \in 1..3 : "SW-WIFI" \in Rango(torres[i].switches)
    /\ out[Len(out)].op = "fin"
    /\ \E n \in 1..Len(out) : out[n].src = "fibra"

\* C6: once the tower X positions are written, ids and X grow with the place
\* in the list, and consecutive towers are LONGITUD_PISO +
\* SEPARACION_ENTRE_TORRES apart whatever they contain.
C6_XTorres ==
    pc \notin {"abrir", "calc_x"} =>
      \A i \in 1..(Len(torres) - 1) :
        /\ torres[i].id < torres[i + 1].id
        /\ torres[i].x < torres[i + 1].x
        /\ torres[i + 1].x - torres[i].x = cfg.LONGITUD_PISO + cfg.SEPARACION_ENTRE_TORRES

\* C6 witness: three towers, the middle one without any switch
C6_Witness ==
    /\ pc = "done"
    /\ Len(torres) = 3
    /\ torres[2].switches = <<>>
    /\ torres[1].switches # <<>>
    /\ torres[3].x = torres[1].x + 2400

DespuesTorres == {"niveles", "utp"} \cup DespuesUTP

\* the Y of the lowest device anchor drawn for level nid of tower torre_id
AnclasNivel(torre_id, nid) ==
    {out[n].pts[1][2] : n \in {m \in 1..Len(out) :
        out[m].op = "icono" /\ out[m].ref[1] = torre_id /\ out[m].ref[3] = nid}}

\* C7: once the level Y positions are written, every level id of the model
\* has one, Y grows strictly with the level id (so level 0, when present, is
\* the lowest), and the devices of a level start at the same Y in every tower
\* that holds devices on it.
C7_YNiveles ==
    pc \notin {"abrir", "calc_x", "calc_y"} =>
      /\ DOMAIN alturas_niveles = UNION {IdsNiveles(torres[i]) : i \in 1..Len(torres)}
      /\ \A n1, n2 \in DOMAIN alturas_niveles :
           n1 < n2 => alturas_niveles[n1] < alturas_niveles[n2]
      /\ pc \in DespuesTorres =>
           \A nid \in DOMAIN alturas_niveles :
             \A i, j \in 1..Len(torres) :
               LET a == AnclasNivel(i - 1, nid)
                   b == AnclasNivel(j - 1, nid)
               IN (a # {} /\ b # {}) =>
                    /\ MinDe(a) = MinDe(b)
                    /\ MinDe(a) = alturas_niveles[nid] + cfg.DISPOSITIVO_Y_OFFSET

\* C7 witness: two towers sharing levels 0, 1 and 2, both with devices on
\* level 2, one of them with an empty level 1
C7_Witness ==
    /\ pc = "done"
    /\ Len(torres) = 2
    /\ IdsNiveles(torres[1]) = {0, 1, 2}
    /\ IdsNiveles(torres[2]) = {0, 1, 2}
    /\ NivelData(torres[1], 1) = QtyCero
    /\ AnclasNivel(0, 2) # {}
    /\ AnclasNivel(1, 2) # {}
    /\ alturas_niveles[1] < alturas_niveles[2]

\* the priority list of the switch kinds
prioridad_switches == <<"SW-CCTV", "SW-DATA", "SW-IPTV", "SW-TEL", "SW-WIFI", "SW-CORE", "SW-FIREWALL">>

\* the switch boxes drawn for a tower, in drawing order
Cajas(torre_id) ==
    Emitidos(LAMBDA d : d.op = "rect" /\ d.rol = "switch" /\ d.ref[1] = torre_id)

\* the lower edge of the box of kind sw among cajas
YCaja(cajas, sw) == (CHOOSE c \in Rango(cajas) : c.ref[2] = sw).pts[1][2]

\* C8: once the towers are drawn, the stack of a tower without UPS holds
\* exactly one box per switch kind of the tower and no other box; the boxes
\* follow the priority list from the bottom up whatever the order of the
\* input records, and kinds next to each other among those present are one
\* and the same step apart (absent kinds leave no gap).
C8_Pila ==
    pc \in DespuesTorres =>
      \A i \in 1..Len(torres) :
        "SW-UPS" \notin Rango(torres[i].switches) =>
          LET cajas == Cajas(i - 1)
              presentes == Filtrar(prioridad_switches, Rango(torres[i].switches))
          IN /\ Len(cajas) = Len(presentes)
             /\ \A sw \in Rango(torres[i].switches) :
                  Cardinality({j \in 1..Len(cajas) : cajas[j].ref[2] = sw}) = 1
             /\ \A j \in 1..Len(cajas) : cajas[j].ref[2] \in Rango(torres[i].switches)
             /\ \A n \in 1..Len(out) :
                  (out[n].op = "rect" /\ out[n].ref[1] = i - 1) => out[n].rol = "switch"
             /\ \A j \in 1..(Len(presentes) - 1) :
                  YCaja(cajas, presentes[j + 1]) - YCaja(cajas, presentes[j])
                    = cfg.SWITCH_VERTICAL_SPACING
             /\ presentes # <<>> =>
                  YCaja(cajas, presentes[Len(presentes)]) + cfg.SWITCH_ALTO = y_sotano - 50

\* C8 witness: a tower whose records give Core, WiFi, Data in that order and
\* whose three boxes are drawn
C8_Witness ==
    /\ pc = "done"
    /\ torres[1].switches = <<"SW-CORE", "SW-WIFI", "SW-DATA">>
    /\ Len(Cajas(0)) = 3
    /\ YCaja(Cajas(0), "SW-DATA") < YCaja(Cajas(0), "SW-WIFI")
    /\ YCaja(Cajas(0), "SW-WIFI") < YCaja(Cajas(0), "SW-CORE")

\* the gap between the upper edge of the box of kind abajo and the lower edge
\* of the box of kind arriba
Hueco(cajas, abajo, arriba) ==
    (CHOOSE c \in Rango(cajas) : c.ref[2] = arriba).pts[1][2]
      - (CHOOSE c \in Rango(cajas) : c.ref[2] = abajo).pts[3][2]

C10_Repetible ==
    (corrida = 2 /\ pc \in {"done", "error_torres", "error_fibra"}) => out = out1

\* C10 witness: the second call completed for two towers and a UPS, the
\* tower records carrying the X of the first call
C10_Witness ==
    /\ corrida = 2
    /\ pc = "done"
    /\ Len(torres) = 2
    /\ RaizConUPS
    /\ "SW-WIFI" \in Rango(torres[1].switches) \cap Rango(torres[2].switches)
    /\ torres[2].x = torres[1].x + cfg.LONGITUD_PISO + cfg.SEPARACION_ENTRE_TORRES
    /\ out = out1
    /\ \E n \in 1..Len(out) : out[n].src = "ups" /\ out[n].rol = "riser"

\* the Y of the fiber buses drawn
YBusesFibra ==
    {out[n].pts[1][2] : n \in {m \in 1..Len(out) :
        out[m].src = "fibra" /\ out[m].op = "linea" /\ out[m].rol = "bus"}}

\* the Y of the power bus: the lower end of the UPS lead and the bus segment
YBusAlimentacion ==
    {out[n].pts[2][2] : n \in {m \in 1..Len(out) :
        out[m].src = "ups" /\ out[m].rol \in {"bajada", "bus"}}}

\* C11: after the power routing of a model with a UPS, the power bus lies
\* strictly below every fiber bus drawn in the run, and the bus segment is
\* horizontal at that Y.
C11_BusAlimentacionDebajo ==
    (pc \in DespuesAlimentacion /\ RaizConUPS) =>
      /\ Cardinality(YBusAlimentacion) = 1
      /\ \A ya \in YBusAlimentacion : \A yf \in YBusesFibra : ya < yf
      /\ \A n \in 1..Len(out) :
           (out[n].src = "ups" /\ out[n].rol = "bus") => out[n].pts[1][2] = out[n].pts[2][2]

\* C11 witness: a UPS, two fiber buses at different Y and the power bus drawn
C11_Witness ==
    /\ pc = "done"
    /\ RaizConUPS
    /\ Cardinality(YBusesFibra) = 2
    /\ \E n \in 1..Len(out) : out[n].src = "ups" /\ out[n].rol = "bus"

\* the states in which a run of main has ended
FinDeMain == {"done", "sin_datos", "error_carga", "error_torres", "error_fibra"}

\* C12: a run of main ends with a complete script (its last directive is the
\* closing one) or with no script written at all, and nothing is laid out or
\* written while the rows are loaded or after a load that failed.
C12_TodoONada ==
    /\ pc \in FinDeMain => (out = <<>> \/ out[Len(out)].op = "fin")
    /\ pc \in {"cargar", "sin_datos", "error_carga"} =>
         (out = <<>> /\ coords = CoordsVacio /\ alturas_niveles = <<>>)

\* the coordinate index holds what the routers read: a key per tower, the box
\* of every switch of every tower, the UPS point when the root has a UPS, the
\* anchor of every configured device kind present on a level, and the Y of
\* every level id
IndiceCompleto ==
    /\ coords.claves = {torres[i].id : i \in 1..Len(torres)}
    /\ DOMAIN coords.switches = coords.claves
    /\ \A i \in 1..Len(torres) :
         /\ ClavesSwitches(torres[i].id) = Rango(torres[i].switches) \ {"SW-UPS"}
         /\ \A j \in 1..Len(torres[i].niveles) :
              \A k \in DOMAIN cfg.DISPOSITIVOS :
                torres[i].niveles[j].qty[k] > 0 =>
                  <<torres[i].id, torres[i].niveles[j].id, cfg.DISPOSITIVOS[k]>>
                    \in DOMAIN coords.disp
    /\ (coords.ups_coord # <<>>) = RaizConUPS
    /\ DOMAIN alturas_niveles = UNION {IdsNiveles(torres[i]) : i \in 1..Len(torres)}

\* C13: when the first router starts the coordinate index is complete, and
\* the steps of the UTP router, the fiber router and the power routing leave
\* coords and alturas_niveles as they found them.
C13_IndiceIntacto ==
    [][/\ pc = "utp" => IndiceCompleto
       /\ pc \in {"utp", "fibra", "alimentacion"} =>
            (coords' = coords /\ alturas_niveles' = alturas_niveles)]_vars

\* C13 witness: the three routers have drawn for a root with UPS and a
\* branch that lists nothing but a UPS, and the index is as layout left it
C13_Witness ==
    /\ pc = "done"
    /\ Len(torres) = 3
    /\ torres[2].switches = <<"SW-UPS">>
    /\ IndiceCompleto
    /\ \E n \in 1..Len(out) : out[n].src = "utp"
    /\ \E n \in 1..Len(out) : out[n].src = "fibra"
    /\ \E n \in 1..Len(out) : out[n].src = "ups" /\ out[n].rol = "riser"

\* the vertical trunks the UTP router drew for a tower, in drawing order
Troncales(torre_id) ==
    Emitidos(LAMBDA d : d.src = "utp" /\ d.rol = "troncal" /\ d.ref[1] = torre_id)

\* the place of a device kind in the fixed priority order
PosTipo(tipo) == CHOOSE j \in 1..Len(device_draw_order) : device_draw_order[j] = tipo

\* C14: once the UTP router has run, the trunks of a tower come in the fixed
\* order of the device kinds, each trunk is vertical, each stands 30 to the
\* right of the one drawn before it whatever kinds were skipped in between,
\* and no two trunks of the tower share an X.
C14_TroncalesCrecientes ==
    pc \in DespuesUTP =>
      \A i \in 1..Len(torres) :
        LET tr == Troncales(torres[i].id)
        IN /\ \A j \in 1..Len(tr) : tr[j].pts[1][1] = tr[j].pts[2][1]
           /\ \A j \in 1..(Len(tr) - 1) :
                /\ PosTipo(tr[j].ref[2]) < PosTipo(tr[j + 1].ref[2])
                /\ tr[j + 1].pts[1][1] - tr[j].pts[1][1] = 30
           /\ \A j, k \in 1..Len(tr) : j # k => tr[j].pts[1][1] # tr[k].pts[1][1]

\* C14 witness: a tower whose access-point and data trunks are both drawn, the
\* data level listed before the access-point level
C14_Witness ==
    /\ pc = "done"
    /\ Len(Troncales(0)) = 2
    /\ Troncales(0)[1].ref[2] = "apQty"
    /\ Troncales(0)[2].ref[2] = "datQty"
    /\ Len(torres[1].niveles) = 2
    /\ torres[1].niveles[1].qty["datQty"] > 0
    /\ torres[1].niveles[1].qty["apQty"] = 0
    /\ torres[1].niveles[2].qty["apQty"] > 0

\* C15: a device kind present in a tower that lacks the mapped switch gets no
\* UTP directive while the kinds that have their switch are still drawn; a
\* switch kind listed for a tower without a recorded box gets no fiber
\* segment and no power riser; and the routers end without error (the fiber
\* router stops only for want of a level 0).
C15_SinEntradaSeOmite ==
    /\ pc \in DespuesUTP =>
         \A i \in 1..Len(torres) :
           \A tipo \in DOMAIN cfg.DISPOSITIVOS \cap DOMAIN cfg.MAPEO_SWITCH :
             (\E nivel \in Rango(torres[i].niveles) : nivel.qty[tipo] > 0) =>
               IF cfg.MAPEO_SWITCH[tipo] \in Rango(torres[i].switches)
               THEN \E n \in 1..Len(out) :
                      out[n].src = "utp" /\ out[n].ref[1] = torres[i].id /\ out[n].ref[2] = tipo
               ELSE \A n \in 1..Len(out) :
                      out[n].src = "utp" => ~(out[n].ref[1] = torres[i].id /\ out[n].ref[2] = tipo)
    /\ pc \in DespuesFibra =>
         \A i \in 1..Len(torres) :
           \A sw \in Rango(torres[i].switches) \ ClavesSwitches(torres[i].id) :
             \A n \in 1..Len(out) :
               (out[n].src = "fibra" \/ (out[n].src = "ups" /\ out[n].rol = "riser")) =>
                 out[n].ref # <<torres[i].id, sw>>
    /\ pc = "error_fibra" => 0 \notin DOMAIN alturas_niveles

\* C16: every device quantity of every level, in the towers being loaded and
\* in the list cargar_datos_csv returns, is a non-negative integer.
C16_CantidadesNoNegativas ==
    /\ \A k \in DOMAIN dic : \A nivel \in Rango(dic[k].niveles) :
         \A tipo \in Rango(device_draw_order) : nivel.qty[tipo] \in Nat
    /\ \A i \in 1..Len(torres) : \A nivel \in Rango(torres[i].niveles) :
         \A tipo \in Rango(device_draw_order) : nivel.qty[tipo] \in Nat

\* the Y of the fiber bus drawn for a switch kind (empty when it has none)
YBusDe(sw) ==
    {out[n].pts[1][2] : n \in {m \in 1..Len(out) :
        out[m].src = "fibra" /\ out[m].rol = "bus" /\ out[m].op = "linea"
          /\ out[m].ref[2] = sw}}

\* the switch kinds that got a fiber bus, in ascending name order
TiposConBus == Filtrar(orden_sorted, {sw \in Rango(orden_sorted) : YBusDe(sw) # {}})

\* the lower edges of the switch and UPS boxes drawn for the root tower
BordesInferioresRaiz ==
    {out[n].pts[1][2] : n \in {m \in 1..Len(out) : out[m].op = "rect" /\ out[m].ref[1] = 0}}

\* C17: once the fiber router has run, every routed switch kind has one bus Y
\* of its own, 40 below the bus of the routed kind before it in ascending
\* name order, and every bus Y is strictly below the lower edge of every
\* switch and UPS box of the root tower.
C17_BusFibraBajoPila ==
    pc \in DespuesFibra =>
      /\ \A sw \in Rango(TiposConBus) : Cardinality(YBusDe(sw)) = 1
      /\ \A j \in 1..(Len(TiposConBus) - 1) :
           \A y1 \in YBusDe(TiposConBus[j]), y2 \in YBusDe(TiposConBus[j + 1]) : y2 = y1 - 40
      /\ \A sw \in Rango(TiposConBus) :
           \A y \in YBusDe(sw) : \A borde \in BordesInferioresRaiz : y < borde

\* C17 restricted to a root tower with a UPS
C17_BusFibraBajoPilaConUPS == RaizConUPS => C17_BusFibraBajoPila

\* the number of configured device kinds with a positive quantity on level nid
\* of the tower in place i (0 when the tower has no such level)
TiposPresentes(i, nid) ==
    Cardinality({k \in DOMAIN cfg.DISPOSITIVOS :
                   \E nivel \in Rango(torres[i].niveles) : nivel.id = nid /\ nivel.qty[k] > 0})

\* device rows of the busiest tower times the row spacing, plus the gap
AlturaPorDispositivos(nid) ==
    MaxDe({TiposPresentes(i, nid) : i \in 1..Len(torres)}) * cfg.DISPOSITIVO_ESPACIADO_Y
      + cfg.ESPACIO_ENTRE_NIVELES

\* the pairs of level ids that follow each other
NivelesSeguidos ==
    {par \in (DOMAIN alturas_niveles) \X (DOMAIN alturas_niveles) :
       /\ par[1] < par[2]
       /\ ~ \E n \in DOMAIN alturas_niveles : par[1] < n /\ n < par[2]}

\* C18 as stated: the height of a level is the device-row height plus the
\* gap, and the height of level 0 holds in addition a block for the switches
\* and the UPS of the towers (more than nothing when a tower has any).
C18_AlturaNivelOriginal ==
    pc \notin {"abrir", "calc_x", "calc_y"} =>
      \A par \in NivelesSeguidos :
        LET altura == alturas_niveles[par[2]] - alturas_niveles[par[1]]
        IN IF par[1] = 0 /\ \E i \in 1..Len(torres) : torres[i].switches # <<>>
           THEN altura > AlturaPorDispositivos(0)
           ELSE altura = AlturaPorDispositivos(par[1])

\* C18 amended: the height of every level, level 0 included, is the number of
\* configured device kinds present on it in the busiest tower times the row
\* spacing, plus the gap; the switches and the UPS add nothing to it.
C18_AlturaNivel ==
    pc \notin {"abrir", "calc_x", "calc_y"} =>
      \A par \in NivelesSeguidos :
        alturas_niveles[par[2]] - alturas_niveles[par[1]] = AlturaPorDispositivos(par[1])

\* C18 witness: two towers with switches share levels 0 and 1; on level 0 one
\* has one device kind and the other two, and level 1 starts 320 above level 0
C18_Witness ==
    /\ pc = "done"
    /\ cfg = CfgBase
    /\ Len(torres) = 2
    /\ {0, 1} \subseteq DOMAIN alturas_niveles
    /\ TiposPresentes(1, 0) = 1
    /\ TiposPresentes(2, 0) = 2
    /\ alturas_niveles[1] - alturas_niveles[0] = 320

\* the icon directives of level nid of tower torre_id, in the order written
EsIconoDe(d, torre_id, nid) == d.op = "icono" /\ d.ref[1] = torre_id /\ d.ref[3] = nid

RECURSIVE IconosEscritos(_, _, _)
IconosEscritos(s, torre_id, nid) ==
    IF s = <<>> THEN <<>>
    ELSE IF EsIconoDe(Head(s), torre_id, nid)
         THEN <<Head(s)>> \o IconosEscritos(Tail(s), torre_id, nid)
         ELSE IconosEscritos(Tail(s), torre_id, nid)

\* the configured device kinds of a level whose quantity lies in S, in the
\* fixed kind order
TiposConCantidad(i, nid, S) ==
    Filtrar(device_draw_order,
            {k \in DOMAIN cfg.DISPOSITIVOS : NivelData(torres[i], nid)[k] \in S})

\* the icons of every tower and level are those of the kinds tipos(i, nid), in
\* that order, the first at the level's Y plus DISPOSITIVO_Y_OFFSET, each next
\* one DISPOSITIVO_ESPACIADO_Y higher, each recorded in coords under (tower,
\* level id, kind label); the other kinds have no entry
IconosSegun(tipos(_, _)) ==
    \A i \in 1..Len(torres) :
      \A nid \in IdsNiveles(torres[i]) :
        LET ic == IconosEscritos(out, torres[i].id, nid)
            ts == tipos(i, nid)
        IN /\ Len(ic) = Len(ts)
           /\ \A j \in 1..Len(ts) :
                /\ ic[j].rol = ts[j]
                /\ ic[j].pts[1] = <<torres[i].x + 150,
                                    alturas_niveles[nid] + cfg.DISPOSITIVO_Y_OFFSET
                                      + (j - 1) * cfg.DISPOSITIVO_ESPACIADO_Y>>
                /\ <<torres[i].id, nid, cfg.DISPOSITIVOS[ts[j]]>> \in DOMAIN coords.disp
                /\ coords.disp[<<torres[i].id, nid, cfg.DISPOSITIVOS[ts[j]]>>] = ic[j].pts[1]
           /\ \A k \in DOMAIN cfg.DISPOSITIVOS \ Rango(ts) :
                <<torres[i].id, nid, cfg.DISPOSITIVOS[k]>> \notin DOMAIN coords.disp

\* C19: once the towers are drawn, the device icons of every tower and level
\* are those of the kinds with a non-zero quantity, in the fixed kind order
\* (AP, phone, TV, data, camera): the first at levelY + DISPOSITIVO_Y_OFFSET,
\* each further one exactly one device row spacing above the previous one,
\* the kinds with zero quantity without anchor and without gap, and every
\* anchor recorded in the coordinate index under (tower, level id, kind).
C19_IconosEnOrden ==
    pc \in DespuesTorres => IconosSegun(LAMBDA i, nid : TiposConCantidad(i, nid, Int \ {0}))

\* the same statement for the kinds with a positive quantity
C19_IconosDeCantidadPositiva ==
    pc \in DespuesTorres => IconosSegun(LAMBDA i, nid : TiposConCantidad(i, nid, Nat \ {0}))

\* the row at the head of the file cannot be processed: an exception leaves
\* the body of the loop
FilaFallida == pc = "cargar" /\ filas # <<>> /\ ProcesarFila(dic, Head(filas)).exc # ""

\* C20: a row that cargar_datos_csv fails to process (TORRE or NIVEL not an
\* integer, or a required field missing) is skipped: the model stays exactly
\* as it was before the row, no tower, level or switch entry made or changed,
\* and the loader goes on with the rows that follow.
C20_FilaFallidaSeOmite ==
    [][FilaFallida => (dic' = dic /\ filas' = Tail(filas) /\ pc' = "cargar")]_vars

\* the part of C20 the code keeps: a row whose TORRE or NIVEL text is not an
\* integer is skipped without a trace
C20_TextoNoEnteroSeOmite ==
    [][(FilaFallida /\ ProcesarFila(dic, Head(filas)).exc = "ValueError")
         => (dic' = dic /\ filas' = Tail(filas) /\ pc' = "cargar")]_vars

\* the per-level branches drawn for kind tipo of tower torre_id
Ramales(torre_id, tipo) ==
    {out[n] : n \in {m \in 1..Len(out) :
        out[m].src = "utp" /\ out[m].rol = "ramal"
        /\ out[m].ref[1] = torre_id /\ out[m].ref[2] = tipo}}

\* every branch of the trunk tr starts on the segment tr
RamalesSobreTroncal(tr) ==
    \A r \in Ramales(tr.ref[1], tr.ref[2]) :
      /\ r.pts[1][1] = tr.pts[1][1]
      /\ tr.pts[1][2] <= r.pts[1][2]
      /\ r.pts[1][2] <= tr.pts[2][2]

\* C21: in dibujar_cableado_utp the trunk-side end point of every per-level
\* branch of a drawn device kind lies on that kind's vertical trunk segment:
\* it has the trunk's X and its Y is between the Y of the trunk's base and the
\* Y of the trunk's top, for every occupied level and whatever other kinds
\* are stacked at that level.
C21_RamalesEnTroncal ==
    pc \in DespuesUTP =>
      \A i \in 1..Len(torres) :
        \A j \in 1..Len(Troncales(torres[i].id)) :
          RamalesSobreTroncal(Troncales(torres[i].id)[j])

\* the same for the trunks of a kind that is the lowest icon of its highest
\* occupied level
C21_RamalesDelTipoMasBajo ==
    pc \in DespuesUTP =>
      \A i \in 1..Len(torres) :
        \A j \in 1..Len(Troncales(torres[i].id)) :
          LET tr == Troncales(torres[i].id)[j]
              ids == {nivel.id : nivel \in {n \in Rango(torres[i].niveles) : n.qty[tr.ref[2]] > 0}}
          IN TiposConCantidad(i, MaxDe(ids), Nat \ {0})[1] = tr.ref[2]
               => RamalesSobreTroncal(tr)

\* the input requirements of the engine on the model it is handed: level ids
\* and quantities are non-negative and some tower has a level (tower ids are
\* the positions 0, 1, ... that generar_lisp assigns)
RequisitosDeEntrada ==
    /\ Len(torres) > 0
    /\ \E i \in 1..Len(torres) : torres[i].niveles # <<>>
    /\ \A i \in 1..Len(torres) :
         \A nivel \in Rango(torres[i].niveles) :
           /\ nivel.id >= 0
           /\ \A tipo \in Rango(device_draw_order) : nivel.qty[tipo] >= 0

\* the states of a run of generar_lisp that a runtime error ended
ErroresDeEjecucion == {"error_torres", "error_fibra"}

\* C22: on every model that meets the input requirements and has a tower with
\* a level, generar_lisp runs the layout, the UTP router, the fiber router
\* and the power routing without a runtime error, also when no tower has a
\* level 0 and when a branch tower declares a UPS.
C22_SinErrorDeEjecucion ==
    RequisitosDeEntrada => pc \notin ErroresDeEjecucion

\* the same for the models in which some tower has a level 0
C22_SinErrorConNivelCero ==
    (RequisitosDeEntrada /\ \E i \in 1..Len(torres) : 0 \in IdsNiveles(torres[i]))
      => pc \notin ErroresDeEjecucion

\* the input TORRE identity of the j-th tower of the loaded list: the list is
\* the loader's dict sorted by key
IdentidadDeEntrada(j) == SortedInts(DOMAIN dic)[j]

\* the states of a run of main in which the layout has numbered the towers
TorresNumeradas == pc \notin {"cargar", "sin_datos", "error_carga", "abrir", "calc_x"}

\* the id of every tower is its input identity, so the root (the first tower,
\* the only one with id 0) is the tower of input identity 0
IdsSonIdentidades ==
    /\ \A j \in 1..Len(torres) : torres[j].id = IdentidadDeEntrada(j)
    /\ IdentidadDeEntrada(1) = 0

\* C23: after cargar_datos_csv and the layout step each tower's id equals its
\* input TORRE identity: the tower that the layout allows a UPS box and that
\* the fiber and power routing treat as root is the tower of input identity
\* 0, and a tower with a non-zero input identity is never used as the root.
C23_RaizEsTorreCero ==
    TorresNumeradas => IdsSonIdentidades

\* the same for the files whose TORRE identities are 0, 1, ... without a gap
C23_IdentidadesSeguidas ==
    (TorresNumeradas /\ DOMAIN dic = 0..(Len(torres) - 1)) => IdsSonIdentidades

====
